---- MODULE Spec2Model ----
(***************************************************************************)
(* A model of package invoke (hyperledger-fabric-invoke-go): the Router    *)
(* with its registry of named handlers, its global middleware chain and    *)
(* its Context map, Handler.use (closure composition), the middleware of   *)
(* middleware.go and the appender middleware and handler of the tests.     *)
(*                                                                         *)
(* A Go function value is modelled by a record: a middleware or a base     *)
(* handler by its constructor and captured parameters, the closure built   *)
(* by Handler.use by the two variables it captures (tmpMW, tmpH).          *)
(*                                                                         *)
(* Router.Invoke is synchronous.  A call advances one stage at a time: a   *)
(* stage is the body of one middleware up to its call of next, or the body *)
(* of the base handler.  Spec dispatches the calls one after the other;    *)
(* SpecConcurrent lets a call start while another is in flight (one        *)
(* goroutine per transaction), so that their stages interleave.            *)
(***************************************************************************)
EXTENDS Integers, Sequences, FiniteSets, TLC

\* ------------------------------------------------------------------ bounds
\* Number of Invoke calls (each call slot is used once).
MaxCalls == 2
\* Longest global middleware chain.
MaxChain == 2
\* Most middleware passed to one RegisterHandler or Use call.
MaxVariadic == 2
\* Longest argument list of an invoke call.
MaxArgs == 1

\* ------------------------------------------------------- program constants
StatusOK == 200
StatusBadRequest == 400
StatusInternalServerError == 500

Calls == 1..MaxCalls
\* The function names of invoke calls, and those the set-up code registers.
FunctionNames == {"endpoint", "nothing"}
RegisteredNames == {"endpoint"}
ContextKeys == {"test"}
ArgValues == {"x"}

SeqsUpTo(S, n) == UNION {[1..k -> S] : k \in 0..n}
ArgLists == SeqsUpTo(ArgValues, MaxArgs)

\* ---------------------------------------------------------------- Response
\* pb.Response{Status, Message, Payload}; the zero value of a field is "" / <<>>.
Response(status, message, payload) ==
    [status |-> status, message |-> message, payload |-> payload]

Success(status, payload) == Response(status, "", payload)

\* Error with the status of the shim's Error, whatever status is given.
ErrorDefaultStatus(status, message) == Response(500, message, <<>>)

Error(status, message) == Response(status, message, <<>>)

\* The zero pb.Response, held by a call that has not returned.
NoResponse == Response(0, "", <<>>)

\* ------------------------------------------------- middleware and handlers
mwIntAppender(contextKey, val) ==
    [kind |-> "mwIntAppender", key |-> contextKey, val |-> val]

hIntAppender(contextKey, val) ==
    [kind |-> "hIntAppender", key |-> contextKey, val |-> val]

ArgCounter(expected) == [kind |-> "ArgCounter", expected |-> expected]

JSONParser(argIndex, contextKey, valueType) ==
    [kind |-> "JSONParser", argIndex |-> argIndex, key |-> contextKey,
     valueType |-> valueType]

TimestampParser(argIndex, timeFormat, contextKey) ==
    [kind |-> "TimestampParser", argIndex |-> argIndex,
     timeFormat |-> timeFormat, key |-> contextKey]

TransactionTimestamp(contextKey) ==
    [kind |-> "TransactionTimestamp", key |-> contextKey]

\* README myHandler: ts := router.Context["timestamp"].(time.Time), then
\* Success(http.StatusOK, nil).
myHandler == [kind |-> "myHandler", key |-> "timestamp"]

\* A user handler that touches no context and reports a failure.
hFailing == [kind |-> "hFailing"]

NilHandler == [kind |-> "nil"]

\* The middleware and handlers the set-up code chooses from.
Middlewares == {mwIntAppender("test", 1), ArgCounter(<<"a">>)}

Handlers == {hIntAppender("test", 3), hFailing}

\* The closure of handler.go:38-40, which captures tmpMW and tmpH.
Closure(tmpMW, tmpH) == [kind |-> "closure", tmpMW |-> tmpMW, tmpH |-> tmpH]

\* Handler.use with the loop running forward (i from 0 up): the last
\* middleware listed ends up innermost-first, so the order is reversed.
RECURSIVE useLoopForward(_, _, _)
useLoopForward(h, m, i) ==
    IF i <= Len(m) THEN useLoopForward(Closure(m[i], h), m, i + 1) ELSE h

useForward(h, m) == useLoopForward(h, m, 1)

\* The loop of Handler.use: i runs from len(m)-1 down to 0 (here Len(m) down
\* to 1), each round wrapping the handler built so far in m[i].
RECURSIVE useLoop(_, _, _)
useLoop(h, m, i) ==
    IF i >= 1 THEN useLoop(Closure(m[i], h), m, i - 1) ELSE h

\* use falling back to a default middleware when none is given.
useDefaulting(h, m) ==
    IF m = <<>> THEN Closure(ArgCounter(<<>>), h) ELSE useLoop(h, m, Len(m))

use(h, m) == useLoop(h, m, Len(m))

\* ------------------------------------------------------------ stage bodies
\* The outcome of running one stage on (args, ctx): "next" (the middleware
\* calls next), "return" (it returns rsp) or "panic" (a failed type
\* assertion); ctx is the context afterwards and touched the keys it read
\* or wrote.
Outcome(out, ctx, rsp, touched) ==
    [out |-> out, ctx |-> ctx, rsp |-> rsp, touched |-> touched]

\* arr := router.Context[key].([]int) panics when the key is absent.
mwIntAppenderBody(mw, args, ctx) ==
    IF mw.key \notin DOMAIN ctx
    THEN Outcome("panic", ctx, NoResponse, {})
    ELSE Outcome("next", [ctx EXCEPT ![mw.key] = Append(@, mw.val)],
                 NoResponse, {mw.key})

hIntAppenderBody(h, args, ctx) ==
    IF h.key \notin DOMAIN ctx
    THEN Outcome("panic", ctx, NoResponse, {})
    ELSE Outcome("return", [ctx EXCEPT ![h.key] = Append(@, h.val)],
                 Success(StatusOK, <<>>), {h.key})

hFailingBody(h, args, ctx) ==
    Outcome("return", ctx, Error(StatusInternalServerError, "handler failed"), {})

\* The names written by the loop of ArgCounter: each name, and ", " after
\* every name but the last.
RECURSIVE JoinExpected(_, _)
JoinExpected(expected, i) ==
    IF i > Len(expected) THEN ""
    ELSE expected[i] \o (IF i < Len(expected) THEN ", " ELSE "")
         \o JoinExpected(expected, i + 1)

ArgCounterMessage(expected) ==
    "incorrect number of arguments, expected " \o ToString(Len(expected))
    \o (IF Len(expected) > 0 THEN ": " \o JoinExpected(expected, 1) ELSE "")

\* ArgCounter that builds and logs the error but falls through to next.
ArgCounterBodyFallThrough(mw, args, ctx) == Outcome("next", ctx, NoResponse, {})

ArgCounterBody(mw, args, ctx) ==
    IF Len(args) # Len(mw.expected)
    THEN Outcome("return", ctx,
                 Error(StatusBadRequest, ArgCounterMessage(mw.expected)), {})
    ELSE Outcome("next", ctx, NoResponse, {})

\* ctx with key set to value (a Go map assignment).
Put(f, k, v) == [x \in DOMAIN f \cup {k} |-> IF x = k THEN v ELSE f[x]]

\* json.Unmarshal(b, jsonValue) into a new value of valueType, on the
\* argument strings used here: "1" is the JSON number 1; "1970-01-02" is
\* not JSON (a '-' follows the top-level value 1970).
JSONUnmarshal(b, valueType) ==
    CASE valueType = "int" /\ b = "1" -> [ok |-> TRUE, value |-> 1]
      [] valueType = "int" /\ b \in {"1970-01-02", "1970-01-03"} ->
            [ok |-> FALSE,
             err |-> "invalid character '-' after top-level value"]

\* time.Parse(timeFormat, value) on the strings used here; a time.Time is
\* held as seconds and nanoseconds since the Unix epoch.
TimeParse(timeFormat, value) ==
    CASE timeFormat = "2006-01-02" /\ value = "1970-01-02" ->
            [ok |-> TRUE, value |-> [sec |-> 86400, nsec |-> 0]]
      [] timeFormat = "2006-01-02" /\ value = "1970-01-03" ->
            [ok |-> TRUE, value |-> [sec |-> 172800, nsec |-> 0]]
      [] timeFormat = "2006-01-02" /\ value = "1" ->
            [ok |-> FALSE,
             err |-> "parsing time \"1\" as \"2006-01-02\": cannot parse \"1\" as \"2006\""]

\* time.Unix(sec, nsec)
TimeUnix(sec, nsec) == [sec |-> sec, nsec |-> nsec]

\* fmt.Sprintf("argIndex %d was greater than length of args", argIndex)
ArgIndexMessage(argIndex) ==
    "argIndex " \o ToString(argIndex) \o " was greater than length of args"

\* JSONParser checking argIndex > len(args): the index len(args) passes and
\* args[argIndex] panics.
JSONParserBodyOffByOne(mw, args, ctx) ==
    IF mw.argIndex > Len(args)
    THEN Outcome("return", ctx,
                 Error(StatusInternalServerError,
                       "error unmarshalling json: " \o ArgIndexMessage(mw.argIndex)),
                 {})
    ELSE IF mw.argIndex < 0 \/ mw.argIndex = Len(args)
    THEN Outcome("panic", ctx, NoResponse, {})
    ELSE LET parsed == JSONUnmarshal(args[mw.argIndex + 1], mw.valueType)
         IN  IF ~parsed.ok
             THEN Outcome("return", ctx,
                          Error(StatusBadRequest,
                                "error unmarshalling json: " \o parsed.err),
                          {})
             ELSE Outcome("next", Put(ctx, mw.key, [ptr |-> parsed.value]),
                          NoResponse, {mw.key})

\* The argument lists are 1-based here: args[argIndex] of the code is
\* args[argIndex + 1].  A negative argIndex passes the bounds check and the
\* index expression args[argIndex] panics.
JSONParserBody(mw, args, ctx) ==
    IF mw.argIndex >= Len(args)
    THEN Outcome("return", ctx,
                 Error(StatusInternalServerError,
                       "error unmarshalling json: " \o ArgIndexMessage(mw.argIndex)),
                 {})
    ELSE IF mw.argIndex < 0 THEN Outcome("panic", ctx, NoResponse, {})
    ELSE LET parsed == JSONUnmarshal(args[mw.argIndex + 1], mw.valueType)
         IN  IF ~parsed.ok
             THEN Outcome("return", ctx,
                          Error(StatusBadRequest,
                                "error unmarshalling json: " \o parsed.err),
                          {})
             ELSE Outcome("next", Put(ctx, mw.key, [ptr |-> parsed.value]),
                          NoResponse, {mw.key})

\* TimestampParser storing what time.Parse gave before looking at its error:
\* on a failure the zero time.Time is stored.
TimestampParserBodyStoreFirst(mw, args, ctx) ==
    IF mw.argIndex >= Len(args)
    THEN Outcome("return", ctx,
                 Error(StatusInternalServerError,
                       "error parsing time: " \o ArgIndexMessage(mw.argIndex)),
                 {})
    ELSE IF mw.argIndex < 0 THEN Outcome("panic", ctx, NoResponse, {})
    ELSE LET parsed == TimeParse(mw.timeFormat, args[mw.argIndex + 1])
         IN  IF ~parsed.ok
             THEN Outcome("return",
                          Put(ctx, mw.key, [zero |-> TRUE]),
                          Error(StatusBadRequest,
                                "error parsing time string: " \o parsed.err),
                          {mw.key})
             ELSE Outcome("next", Put(ctx, mw.key, parsed.value),
                          NoResponse, {mw.key})

TimestampParserBody(mw, args, ctx) ==
    IF mw.argIndex >= Len(args)
    THEN Outcome("return", ctx,
                 Error(StatusInternalServerError,
                       "error parsing time: " \o ArgIndexMessage(mw.argIndex)),
                 {})
    ELSE IF mw.argIndex < 0 THEN Outcome("panic", ctx, NoResponse, {})
    ELSE LET parsed == TimeParse(mw.timeFormat, args[mw.argIndex + 1])
         IN  IF ~parsed.ok
             THEN Outcome("return", ctx,
                          Error(StatusBadRequest,
                                "error parsing time string: " \o parsed.err),
                          {})
             ELSE Outcome("next", Put(ctx, mw.key, parsed.value),
                          NoResponse, {mw.key})

\* TransactionTimestamp logging the error and going on: the getters of the
\* nil timestamp give 0.
TransactionTimestampBodyIgnoringError(mw, stub, ctx) ==
    Outcome("next",
            Put(ctx, mw.key,
                IF stub.ok THEN TimeUnix(stub.seconds, stub.nanos)
                ELSE TimeUnix(0, 0)),
            NoResponse, {mw.key})

\* stub.GetTxTimestamp() gives (ts, err): stub.ok tells whether err is nil.
TransactionTimestampBody(mw, stub, ctx) ==
    IF ~stub.ok
    THEN Outcome("return", ctx,
                 Error(StatusInternalServerError,
                       "error getting transaction timestamp: " \o stub.err),
                 {})
    ELSE Outcome("next", Put(ctx, mw.key, TimeUnix(stub.seconds, stub.nanos)),
                 NoResponse, {mw.key})

\* The type assertion panics when the key is absent.
myHandlerBody(h, args, ctx) ==
    IF h.key \notin DOMAIN ctx
    THEN Outcome("panic", ctx, NoResponse, {})
    ELSE Outcome("return", ctx, Success(StatusOK, <<>>), {h.key})

\* A user handler answering Success(status, payload).
hSuccess(status, payload) ==
    [kind |-> "hSuccess", status |-> status, payload |-> payload]

\* A user handler answering Error(status, message).
hError(status, message) ==
    [kind |-> "hError", status |-> status, message |-> message]

\* Calling a middleware function value that does not ask the stub.
MiddlewareBody(mw, args, ctx) ==
    CASE mw.kind = "mwIntAppender" -> mwIntAppenderBody(mw, args, ctx)
      [] mw.kind = "ArgCounter" -> ArgCounterBody(mw, args, ctx)
      [] mw.kind = "JSONParser" -> JSONParserBody(mw, args, ctx)
      [] mw.kind = "TimestampParser" -> TimestampParserBody(mw, args, ctx)

\* Calling a middleware function value: tmpMW(stub, args, tmpH).
MiddlewareCall(mw, stub, args, ctx) ==
    IF mw.kind = "TransactionTimestamp"
    THEN TransactionTimestampBody(mw, stub, ctx)
    ELSE MiddlewareBody(mw, args, ctx)

\* Calling a base handler function value.
HandlerBody(h, args, ctx) ==
    CASE h.kind = "hIntAppender" -> hIntAppenderBody(h, args, ctx)
      [] h.kind = "hFailing" -> hFailingBody(h, args, ctx)
      [] h.kind = "myHandler" -> myHandlerBody(h, args, ctx)
      [] h.kind = "hSuccess" ->
            Outcome("return", ctx, Success(h.status, h.payload), {})
      [] h.kind = "hError" ->
            Outcome("return", ctx, Error(h.status, h.message), {})

\* ------------------------------------------------------- GetCreatorCert
\* Identity bytes are held as lines: the BEGIN and END lines of a PEM
\* block, a line of base64 that is a DER certificate ("der"), another line
\* of base64 ("b64"), and a line that is not base64 ("text").
MaxPemLines == 3
PemLines == {"BEGIN", "END", "der", "b64", "text"}
Base64Lines == {"der", "b64"}

\* The *pem.Block that pem.Decode returns; nil when it finds no block.
NilBlock == [nil |-> TRUE, Bytes |-> <<>>]

\* pem.Decode(data): the first BEGIN line that is followed by base64 lines
\* up to an END line opens the block; a BEGIN line that is not is skipped
\* and the search goes on behind it.
RECURSIVE PemDecode(_)
PemDecode(data) ==
    IF data = <<>> THEN NilBlock
    ELSE IF data[1] # "BEGIN" THEN PemDecode(Tail(data))
    ELSE LET rest == Tail(data)
             ends == {j \in 1..Len(rest) : rest[j] = "END"}
         IN  IF ends = {} THEN NilBlock
             ELSE LET j == CHOOSE j \in ends : \A k \in ends : j <= k
                      body == SubSeq(rest, 1, j - 1)
                  IN  IF \A k \in 1..Len(body) : body[k] \in Base64Lines
                      THEN [nil |-> FALSE, Bytes |-> body]
                      ELSE PemDecode(rest)

\* x509.ParseCertificate(asn1Data): a certificate when the bytes are one
\* DER certificate, an error otherwise.
ParseCertificate(asn1Data) ==
    IF asn1Data = <<"der">>
    THEN [kind |-> "cert", err |-> ""]
    ELSE [kind |-> "error", err |-> "x509: malformed certificate"]

\* The stubs: GetCreator fails, or gives bytes that are not a serialised
\* identity, or gives a serialised identity with its IdBytes.
CreatorStubs ==
    {[err |-> "no creator", proto |-> FALSE, IdBytes |-> <<>>],
     [err |-> "", proto |-> FALSE, IdBytes |-> <<>>]}
        \cup {[err |-> "", proto |-> TRUE, IdBytes |-> b] :
                    b \in SeqsUpTo(PemLines, MaxPemLines)}

\* GetCreatorCert: (cert, nil), (nil, err), or the panic of block.Bytes on
\* the nil block.
GetCreatorCert(stub) ==
    IF stub.err # "" THEN [kind |-> "error", err |-> stub.err]
    ELSE IF ~stub.proto
    THEN [kind |-> "error", err |-> "proto: cannot parse invalid wire-format data"]
    ELSE LET block == PemDecode(stub.IdBytes)
         IN  IF block.nil THEN [kind |-> "panic", err |-> ""]
             ELSE ParseCertificate(block.Bytes)

\* No call of GetCreatorCert has been made.
NoCertCall ==
    [called |-> FALSE, stub |-> [err |-> "", proto |-> FALSE, IdBytes |-> <<>>],
     out |-> [kind |-> "", err |-> ""]]

\* ------------------------------------------------------------------- state
VARIABLES
    invokeMap,        \* Router.invokeMap: function name -> composed Handler
    middlewareChain,  \* Router.middlewareChain
    Context,          \* Router.Context: key -> value
    calls,            \* the Invoke calls: position, arguments, result, and
                      \* history: the stages run (trace), the other calls
                      \* whose context values it read or overwrote
                      \* (inherited), those of them then in flight (raced)
    registered,       \* history: the arguments of the last RegisterHandler
    ctxWriter,        \* history: who last wrote each key (0: the set-up code)
    creatorCert       \* the last call of GetCreatorCert: its stub and outcome

vars ==
    <<invokeMap, middlewareChain, Context, calls, registered, ctxWriter,
      creatorCert>>

\* A call not yet made.
IdleCall ==
    [pc |-> "idle", function |-> "", args |-> <<>>, fn |-> NilHandler,
     result |-> NoResponse, trace |-> <<>>, inherited |-> {}, raced |-> {}]

\* NewRouter handing out a map that another Router has filled.
InitShared ==
    /\ invokeMap = [functionName \in {"endpoint"} |-> hFailing]
    /\ middlewareChain = <<>>
    /\ Context = <<>>
    /\ calls = [c \in Calls |-> IdleCall]
    /\ registered = <<>>
    /\ ctxWriter = <<>>
    /\ creatorCert = NoCertCall

\* NewRouter: empty Context, invokeMap and middlewareChain.
Init ==
    /\ invokeMap = <<>>
    /\ middlewareChain = <<>>
    /\ Context = <<>>
    /\ calls = [c \in Calls |-> IdleCall]
    /\ registered = <<>>
    /\ ctxWriter = <<>>
    /\ creatorCert = NoCertCall

\* The set-up phase: the registry, the global chain and the initial context
\* are written single-threaded before the first call is dispatched (README,
\* initRouter before shim.Start).
Quiescent == \A c \in Calls : calls[c].pc = "idle"

\* router.Context[key] = make([]int, 0), as the tests' set-up does.
SetContext(key) ==
    /\ Quiescent
    /\ Context' = Put(Context, key, <<>>)
    /\ ctxWriter' = Put(ctxWriter, key, 0)
    /\ UNCHANGED <<invokeMap, middlewareChain, calls, registered, creatorCert>>

\* Use putting the new middleware in front of the chain.
UsePrepend(mws) ==
    /\ Quiescent
    /\ Len(middlewareChain) + Len(mws) <= MaxChain
    /\ middlewareChain' = mws \o middlewareChain
    /\ UNCHANGED <<invokeMap, Context, calls, registered, ctxWriter, creatorCert>>

\* Router.Use
Use(mws) ==
    /\ Quiescent
    /\ Len(middlewareChain) + Len(mws) <= MaxChain
    /\ middlewareChain' = middlewareChain \o mws
    /\ UNCHANGED <<invokeMap, Context, calls, registered, ctxWriter, creatorCert>>

\* RegisterHandler trying the handler out once as it registers it.
RegisterHandlerEager(functionName, h, mws) ==
    /\ Quiescent
    /\ invokeMap' = Put(invokeMap, functionName, use(h, mws))
    /\ registered' = Put(registered, functionName, [h |-> h, mws |-> mws])
    /\ Context' = HandlerBody(h, <<>>, Context).ctx
    /\ UNCHANGED <<middlewareChain, calls, ctxWriter, creatorCert>>

\* RegisterHandler refusing to replace the entry of a name already registered.
RegisterHandlerKeepFirst(functionName, h, mws) ==
    /\ Quiescent
    /\ invokeMap' = IF functionName \in DOMAIN invokeMap THEN invokeMap
                    ELSE Put(invokeMap, functionName, use(h, mws))
    /\ registered' = Put(registered, functionName, [h |-> h, mws |-> mws])
    /\ UNCHANGED <<middlewareChain, Context, calls, ctxWriter, creatorCert>>

\* Router.RegisterHandler
RegisterHandler(functionName, h, mws) ==
    /\ Quiescent
    /\ invokeMap' = Put(invokeMap, functionName, use(h, mws))
    /\ registered' = Put(registered, functionName, [h |-> h, mws |-> mws])
    /\ UNCHANGED <<middlewareChain, Context, calls, ctxWriter, creatorCert>>

\* The not-found error without the quotes around the name.
NotFoundErrorUnquoted(function) ==
    Error(StatusBadRequest, "invalid invoke function " \o function)

\* fmt.Errorf("invalid invoke function \"%s\"", function), returned as
\* Error(http.StatusBadRequest, err.Error()) (router.go:68-70)
NotFoundError(function) ==
    Error(StatusBadRequest, "invalid invoke function \"" \o function \o "\"")

\* Invoke dispatching the registered handler without the global chain.
AttachGlobalNone(fn) == fn

\* fn = fn.use(r.middlewareChain...) (router.go:74)
AttachGlobal(fn) == use(fn, middlewareChain)

\* Invoke storing the handler it wrapped back in the registry:
\* r.invokeMap[function] = fn.use(r.middlewareChain...).
InvokeAccumulating(c, function, args) ==
    /\ calls[c].pc = "idle"
    /\ \A d \in Calls : d < c => calls[d].pc # "idle"
    /\ IF function \notin DOMAIN invokeMap
       THEN /\ calls' = [calls EXCEPT ![c] =
                [@ EXCEPT !.pc = "done", !.function = function, !.args = args,
                          !.result = NotFoundError(function)]]
            /\ invokeMap' = invokeMap
       ELSE /\ calls' = [calls EXCEPT ![c] =
                [@ EXCEPT !.pc = "run", !.function = function, !.args = args,
                          !.fn = AttachGlobal(invokeMap[function])]]
            /\ invokeMap' = [invokeMap EXCEPT ![function] = AttachGlobal(@)]
    /\ UNCHANGED <<middlewareChain, Context, registered, ctxWriter, creatorCert>>

\* Router.Invoke up to the call of the composed handler (router.go:59-77):
\* the not-found return, or fn = fn.use(r.middlewareChain...).
Invoke(c, function, args) ==
    /\ calls[c].pc = "idle"
    /\ \A d \in Calls : d < c => calls[d].pc # "idle"
    /\ IF function \notin DOMAIN invokeMap
       THEN calls' = [calls EXCEPT ![c] =
                [@ EXCEPT !.pc = "done", !.function = function, !.args = args,
                          !.result = NotFoundError(function)]]
       ELSE calls' = [calls EXCEPT ![c] =
                [@ EXCEPT !.pc = "run", !.function = function, !.args = args,
                          !.fn = AttachGlobal(invokeMap[function])]]
    /\ UNCHANGED <<invokeMap, middlewareChain, Context, registered, ctxWriter, creatorCert>>

\* Invoke answering through the shim's Success, which keeps only the payload.
InvokeResultOK(result) == Success(StatusOK, result.payload)

\* result := fn(stub, args); return result (router.go:77-80), reached through
\* the returns of the closures (handler.go:39) and of the middleware.
InvokeResult(result) == result

\* The calls, other than c, that last wrote one of the keys, and those of
\* them that are in flight.
OtherWriters(c, keys) ==
    {d \in Calls \ {c} : \E k \in keys \cap DOMAIN ctxWriter : ctxWriter[k] = d}
RunningWriters(c, keys) == {d \in OtherWriters(c, keys) : calls[d].pc = "run"}

\* A closure that calls its captured handler whatever its middleware did:
\* tmpMW(stub, args, tmpH) followed by return tmpH(stub, args).
ContinueAlways(f, o) == IF f.kind = "closure" THEN f.tmpH ELSE NilHandler

\* A closure that captures the variable h instead of its copy tmpH: when it
\* runs, h is the closure itself.
ContinueSelf(f, o) == IF o.out = "next" THEN f ELSE NilHandler

\* The function value called after a stage of f with outcome o: the closure
\* hands tmpH to its middleware as next (handler.go:39) and tmpH is called
\* only where the middleware calls next; NilHandler when the stage returns.
Continue(f, o) == IF o.out = "next" THEN f.tmpH ELSE NilHandler

\* A middleware that hands next the arguments left after its own.
NextArgsConsumed(mw, args) == IF args = <<>> THEN args ELSE Tail(args)

\* The arguments a middleware calls next with: return next(stub, args)
\* (middleware.go:46, 77, 105, 125; handler_test.go:89).
NextArgs(mw, args) == args

\* The call's next stage: the function value calls[c].fn is called.  A
\* closure calls its middleware with its captured handler as next; the
\* middleware returns what next returns, so a return ends the call with
\* that Response (router.go:77-80).
StageOn(c, stub) ==
    LET f == calls[c].fn
        isMw == f.kind = "closure"
        stage == IF isMw THEN f.tmpMW ELSE f
        o == IF isMw THEN MiddlewareCall(stage, stub, calls[c].args, Context)
             ELSE HandlerBody(stage, calls[c].args, Context)
        nxt == Continue(f, o)
        pc == IF o.out = "panic" THEN "panic"
              ELSE IF nxt = NilHandler THEN "done" ELSE "run"
    IN  /\ calls[c].pc = "run"
        /\ Context' = o.ctx
        /\ ctxWriter' = [k \in DOMAIN o.ctx |->
                            IF k \in o.touched THEN c ELSE ctxWriter[k]]
        /\ calls' = [calls EXCEPT ![c] =
              [@ EXCEPT !.trace = Append(@, stage),
                        !.inherited = @ \cup OtherWriters(c, o.touched),
                        !.raced = @ \cup RunningWriters(c, o.touched),
                        !.pc = pc,
                        !.args = IF pc = "run" THEN NextArgs(stage, @) ELSE @,
                        !.fn = IF pc = "run" THEN nxt ELSE NilHandler,
                        !.result = IF pc = "done"
                                   THEN InvokeResult(o.rsp) ELSE NoResponse]]
        /\ UNCHANGED <<invokeMap, middlewareChain, registered, creatorCert>>

\* The transaction's stub as its middleware find it: GetTxTimestamp gives
\* a timestamp or an error.
Stubs ==
    {[ok |-> TRUE, seconds |-> 5, nanos |-> 7, err |-> ""],
     [ok |-> FALSE, seconds |-> 0, nanos |-> 0, err |-> "no timestamp"]}

Stage(c) == \E stub \in Stubs : StageOn(c, stub)

\* No call is in flight.
NoneRunning == \A c \in Calls : calls[c].pc # "run"

\* An Invoke dispatched when the previous call has returned.
InvokeSerial(c, function, args) == NoneRunning /\ Invoke(c, function, args)

Next ==
    \/ \E key \in ContextKeys : SetContext(key)
    \/ \E mws \in SeqsUpTo(Middlewares, MaxVariadic) : Use(mws)
    \/ \E functionName \in RegisteredNames, h \in Handlers,
          mws \in SeqsUpTo(Middlewares, MaxVariadic) :
            RegisterHandler(functionName, h, mws)
    \/ \E c \in Calls, function \in FunctionNames, args \in ArgLists :
            InvokeSerial(c, function, args)
    \/ \E c \in Calls : Stage(c)

Spec == Init /\ [][Next]_vars

\* One call after any set-up, where the call in flight goes on: the
\* goroutine that runs it is scheduled until it returns.
NextLive ==
    \/ \E key \in ContextKeys : SetContext(key)
    \/ \E mws \in SeqsUpTo(Middlewares, MaxVariadic) : Use(mws)
    \/ \E functionName \in RegisteredNames, h \in Handlers,
          mws \in SeqsUpTo(Middlewares, MaxVariadic) :
            RegisterHandler(functionName, h, mws)
    \/ \E function \in FunctionNames, args \in ArgLists :
            InvokeSerial(1, function, args)
    \/ Stage(1)

SpecLive == Init /\ [][NextLive]_vars /\ WF_vars(Stage(1))

\* A handler calls GetCreatorCert(stub) on the stub of its transaction.
CallGetCreatorCert(stub) ==
    /\ creatorCert' = [called |-> TRUE, stub |-> stub, out |-> GetCreatorCert(stub)]
    /\ UNCHANGED <<invokeMap, middlewareChain, Context, calls, registered,
                   ctxWriter>>

NextCreator == \E stub \in CreatorStubs : CallGetCreatorCert(stub)

SpecCreator == Init /\ [][NextCreator]_vars

\* A set-up that registers its handlers first and adds its global
\* middleware afterwards: every Use comes after every RegisterHandler.
NextLateUse ==
    \/ \E key \in ContextKeys : SetContext(key)
    \/ \E functionName \in RegisteredNames, h \in Handlers,
          mws \in SeqsUpTo(Middlewares, MaxVariadic) :
            middlewareChain = <<>> /\ RegisterHandler(functionName, h, mws)
    \/ \E mws \in SeqsUpTo(Middlewares, MaxVariadic) :
            invokeMap # <<>> /\ Use(mws)
    \/ \E c \in Calls, function \in FunctionNames, args \in ArgLists :
            InvokeSerial(c, function, args)
    \/ \E c \in Calls : Stage(c)

SpecLateUse == Init /\ [][NextLateUse]_vars

NextConcurrent ==
    \/ \E key \in ContextKeys : SetContext(key)
    \/ \E mws \in SeqsUpTo(Middlewares, MaxVariadic) : Use(mws)
    \/ \E functionName \in RegisteredNames, h \in Handlers,
          mws \in SeqsUpTo(Middlewares, MaxVariadic) :
            RegisterHandler(functionName, h, mws)
    \/ \E c \in Calls, function \in FunctionNames, args \in ArgLists :
            Invoke(c, function, args)
    \/ \E c \in Calls : Stage(c)

SpecConcurrent == Init /\ [][NextConcurrent]_vars

\* The registry with several names: every function name may be registered,
\* and registered again, with handlers that answer through Success and Error.
RegistryHandlers ==
    {hSuccess(201, <<>>), hSuccess(200, <<72, 105>>),
     hError(500, "Hello World!"), hError(404, "")}

RegistryMiddlewares == {ArgCounter(<<"a">>)}

NextRegistry ==
    \/ \E functionName \in FunctionNames, h \in RegistryHandlers,
          mws \in SeqsUpTo(RegistryMiddlewares, MaxVariadic) :
            RegisterHandler(functionName, h, mws)
    \/ \E c \in Calls, function \in FunctionNames, args \in ArgLists :
            InvokeSerial(c, function, args)
    \/ \E c \in Calls : Stage(c)

SpecRegistry == Init /\ [][NextRegistry]_vars

\* The library's middleware on one call: ArgCounter over expected lists of
\* every length up to two, the parsers at argument index 0 and 1, and
\* TransactionTimestamp, in front of a handler that reads the timestamp
\* (README, myHandler) or one that reads nothing.
LibraryMiddlewares ==
    {ArgCounter(<<>>), ArgCounter(<<"a">>), ArgCounter(<<"a", "b">>),
     JSONParser(0, "json", "int"), JSONParser(1, "json", "int"),
     TimestampParser(0, "2006-01-02", "timestamp"),
     TimestampParser(1, "2006-01-02", "timestamp"),
     TransactionTimestamp("timestamp")}

LibraryHandlers == {myHandler, hSuccess(200, <<72, 105>>)}

LibraryArgLists == SeqsUpTo({"1", "1970-01-02"}, MaxArgs + 1)

NextLibrary ==
    \/ \E h \in LibraryHandlers,
          mws \in SeqsUpTo(LibraryMiddlewares, MaxVariadic) :
            RegisterHandler("endpoint", h, mws)
    \/ \E args \in LibraryArgLists : InvokeSerial(1, "endpoint", args)
    \/ Stage(1)

SpecLibrary == Init /\ [][NextLibrary]_vars

\* The parsers under concurrent dispatch: calls in flight together, each
\* with its own arguments, run the parsers registered for the one name.
ConcurrentParsers ==
    {TimestampParser(0, "2006-01-02", "timestamp"), JSONParser(0, "json", "int")}

ConcurrentArgLists == SeqsUpTo({"1970-01-02", "1970-01-03"}, MaxArgs)

NextLibraryConcurrent ==
    \/ \E mws \in SeqsUpTo(ConcurrentParsers, MaxVariadic) :
            RegisterHandler("endpoint", myHandler, mws)
    \/ \E c \in Calls, args \in ConcurrentArgLists :
            Invoke(c, "endpoint", args)
    \/ \E c \in Calls : Stage(c)

SpecLibraryConcurrent == Init /\ [][NextLibraryConcurrent]_vars

\* The parsers made with any int as argIndex, the negative ones included:
\* argIndex is an int parameter of the constructors.
ArgIndexes == {-1, 0, 1}

SignedParsers ==
    {JSONParser(i, "json", "int") : i \in ArgIndexes}
        \cup {TimestampParser(i, "2006-01-02", "timestamp") : i \in ArgIndexes}

NextSigned ==
    \/ \E h \in LibraryHandlers,
          mws \in SeqsUpTo(SignedParsers, MaxVariadic) :
            RegisterHandler("endpoint", h, mws)
    \/ \E args \in LibraryArgLists : InvokeSerial(1, "endpoint", args)
    \/ Stage(1)

SpecSigned == Init /\ [][NextSigned]_vars

\* ------------------------------------------------------- claims: helpers
Started(c) == calls[c].pc # "idle"
Finished(c) == calls[c].pc \in {"done", "panic"}
Found(c) == Started(c) /\ calls[c].function \in DOMAIN invokeMap

\* What the set-up code registered for the call's function name, and the
\* stages in the order the claims give: global, call-specific, handler.
RegOf(c) == registered[calls[c].function]
StagesOf(c) == middlewareChain \o RegOf(c).mws \o <<RegOf(c).h>>
MwsOf(c) == middlewareChain \o RegOf(c).mws

\* The middleware invokes next on these arguments.
Delegates(mw, args) == MiddlewareBody(mw, args, Context).out = "next"
AllDelegate(c) ==
    \A i \in 1..Len(MwsOf(c)) : Delegates(MwsOf(c)[i], calls[c].args)

\* The position of the first middleware that does not invoke next (0: none).
FirstStop(c) ==
    LET stops == {i \in 1..Len(MwsOf(c)) : ~Delegates(MwsOf(c)[i], calls[c].args)}
    IN  IF stops = {} THEN 0 ELSE CHOOSE i \in stops : \A j \in stops : i <= j

\* The stages a function value runs, outermost first, when each delegates.
RECURSIVE Unfold(_)
Unfold(f) == IF f.kind = "closure" THEN <<f.tmpMW>> \o Unfold(f.tmpH) ELSE <<f>>

\* The values the appender stages of a trace append to the slot of key.
RECURSIVE Appended(_, _)
Appended(trace, key) ==
    IF trace = <<>> THEN <<>>
    ELSE (IF trace[1].kind \in {"mwIntAppender", "hIntAppender"} /\ trace[1].key = key
          THEN <<trace[1].val>> ELSE <<>>) \o Appended(Tail(trace), key)

\* ----------------------------------------------------------------- claims

\* C1: a call of a registered name whose middleware all delegate has run
\* exactly the global middleware in order, then the call-specific middleware
\* in registration order, then the handler, each once.
C1_InvokeOrder ==
    \A c \in Calls :
        (Found(c) /\ Finished(c) /\ AllDelegate(c))
            => calls[c].trace = StagesOf(c)

C1_Witness ==
    \E c \in Calls :
        /\ Found(c) /\ calls[c].pc = "done" /\ AllDelegate(c)
        /\ Len(middlewareChain) >= 1 /\ Len(RegOf(c).mws) = 2
        /\ RegOf(c).mws[1] # RegOf(c).mws[2]
        /\ middlewareChain[1] # RegOf(c).mws[1]
        /\ Len(calls[c].trace) >= 4

\* C2: the handler h.use(m0, ..., mk) stored at registration runs m0, then
\* m1, ..., then mk, then h: its closures nest in declaration order, and a
\* call that runs it alone (no global middleware), every middleware
\* delegating, has executed exactly that sequence.
C2_UseOrder ==
    /\ \A name \in DOMAIN invokeMap :
          Unfold(invokeMap[name]) = registered[name].mws \o <<registered[name].h>>
    /\ \A c \in Calls :
          (Found(c) /\ Finished(c) /\ AllDelegate(c) /\ middlewareChain = <<>>)
              => calls[c].trace = RegOf(c).mws \o <<RegOf(c).h>>

C2_Witness ==
    \E c \in Calls :
        /\ Found(c) /\ calls[c].pc = "done" /\ middlewareChain = <<>>
        /\ Len(RegOf(c).mws) = 2 /\ RegOf(c).mws[1] # RegOf(c).mws[2]
        /\ Len(calls[c].trace) = 3

\* The Response returned by the stage a finished call executed last.
LastStage(c) == calls[c].trace[Len(calls[c].trace)]
LastResponse(c) ==
    IF LastStage(c) \in Handlers
    THEN HandlerBody(LastStage(c), calls[c].args, Context).rsp
    ELSE MiddlewareBody(LastStage(c), calls[c].args, Context).rsp

\* The not-found message of the claim, written out for each name.
NotFoundText(function) ==
    CASE function = "nothing" -> "invalid invoke function \"nothing\""
      [] function = "endpoint" -> "invalid invoke function \"endpoint\""

\* C3: Invoke of a name with no entry in the registry returns exactly
\* Error(400, "invalid invoke function \"<name>\"") with an empty payload, runs
\* no stage and leaves the context as it was; every other Response of Invoke
\* is the one returned by the stage that ran last, never one of the
\* dispatcher's own.
C3_NotFound ==
    /\ [](\A c \in Calls :
            (Started(c) /\ ~Found(c)) =>
                /\ calls[c].pc = "done"
                /\ calls[c].result =
                     [status |-> 400, message |-> NotFoundText(calls[c].function),
                      payload |-> <<>>]
                /\ calls[c].trace = <<>>)
    /\ [](\A c \in Calls :
            (Found(c) /\ calls[c].pc = "done") =>
                /\ calls[c].trace # <<>>
                /\ calls[c].result = LastResponse(c))
    /\ [][\A c \in Calls :
            (~Started(c) /\ Started(c)' /\ ~Found(c)') =>
                (Context' = Context /\ ctxWriter' = ctxWriter)]_vars

C3_Witness ==
    \E c \in Calls :
        /\ Started(c) /\ ~Found(c) /\ calls[c].function = "nothing"
        /\ middlewareChain # <<>> /\ invokeMap # <<>> /\ Context # <<>>

\* The context holds, under each key, what the executed stages appended, in
\* the order of the calls: nothing was written by a stage that did not run.
RECURSIVE AppendedByCalls(_, _)
AppendedByCalls(c, key) ==
    IF c = 0 THEN <<>>
    ELSE AppendedByCalls(c - 1, key) \o Appended(calls[c].trace, key)

\* C4: when the middleware at position i of the chain returns without
\* invoking next, the stages executed are exactly those up to position i, the
\* Response of the call is the one that middleware returned, and the context
\* holds no write of a later middleware or of the handler.
C4_ShortCircuit ==
    /\ \A c \in Calls :
          (Found(c) /\ calls[c].pc = "done" /\ FirstStop(c) # 0) =>
              /\ calls[c].trace = SubSeq(MwsOf(c), 1, FirstStop(c))
              /\ calls[c].result =
                    MiddlewareBody(MwsOf(c)[FirstStop(c)], calls[c].args, Context).rsp
    /\ \A key \in DOMAIN Context : Context[key] = AppendedByCalls(MaxCalls, key)

C4_Witness ==
    \E c \in Calls :
        /\ Found(c) /\ calls[c].pc = "done" /\ FirstStop(c) # 0
        /\ FirstStop(c) < Len(MwsOf(c))
        /\ FirstStop(c) > 1
        /\ MwsOf(c)[Len(MwsOf(c))].kind = "mwIntAppender"
        /\ RegOf(c).h.kind = "hIntAppender"

\* C5: when every global and call-specific middleware of a registered name
\* returns the value of next, the Response of Invoke is exactly the Response
\* (status, message, payload) of the registered handler.
C5_ResponseUnmodified ==
    \A c \in Calls :
        (Found(c) /\ calls[c].pc = "done" /\ AllDelegate(c)) =>
            calls[c].result = HandlerBody(RegOf(c).h, calls[c].args, Context).rsp

C5_Witness ==
    \E c \in Calls :
        /\ Found(c) /\ calls[c].pc = "done" /\ AllDelegate(c)
        /\ middlewareChain # <<>> /\ RegOf(c).mws # <<>>
        /\ RegOf(c).h = hFailing
        /\ calls[c].result.status = 500 /\ calls[c].result.message # ""

\* C6: under concurrent dispatch no stage of a call reads or overwrites a
\* context value written by another call that is in flight.
C6_ContextIsolated == \A c \in Calls : calls[c].raced = {}

\* C7: across calls dispatched one after the other, no stage of a call reads
\* or overwrites a context value written during an earlier call, and a call in
\* flight finds in the context only entries of the set-up code or its own.
C7_FreshContext ==
    \A c \in Calls :
        /\ calls[c].inherited = {}
        /\ calls[c].pc = "run" =>
              \A key \in DOMAIN Context : ctxWriter[key] \in {0, c}

\* C8: Invoke leaves the registry and the global chain as they are: the
\* handler stored under a name stays the call-specific composition made at
\* registration, and every call of a name, the first as the N-th, runs each
\* global middleware exactly once.
C8_InvokeFrame ==
    /\ [][(calls' # calls) =>
             (invokeMap' = invokeMap /\ middlewareChain' = middlewareChain)]_vars
    /\ [](\A name \in DOMAIN invokeMap :
             Len(Unfold(invokeMap[name])) = Len(registered[name].mws) + 1)
    /\ [](\A c \in Calls :
             (Found(c) /\ Finished(c) /\ AllDelegate(c)) =>
                 /\ Len(calls[c].trace) = Len(middlewareChain) + Len(RegOf(c).mws) + 1
                 /\ SubSeq(calls[c].trace, 1, Len(middlewareChain)) = middlewareChain)

C8_Witness ==
    /\ MaxCalls >= 2
    /\ \A c \in 1..2 : Found(c) /\ calls[c].pc = "done" /\ AllDelegate(c)
    /\ calls[1].function = calls[2].function
    /\ Len(middlewareChain) >= 1

\* C9: composing runs nothing: a step that changes the registry or the
\* global chain (RegisterHandler, Use) changes neither the context nor any
\* call: no stage has run and nothing was written.
C9_CompositionInert ==
    [][(invokeMap' # invokeMap \/ middlewareChain' # middlewareChain
            \/ registered' # registered) =>
         (Context' = Context /\ calls' = calls /\ ctxWriter' = ctxWriter)]_vars

C9_Witness ==
    /\ Quiescent
    /\ "test" \in DOMAIN Context /\ Context["test"] = <<>>
    /\ middlewareChain # <<>> /\ middlewareChain[1].kind = "mwIntAppender"
    /\ \E name \in DOMAIN invokeMap :
          /\ registered[name].h.kind = "hIntAppender"
          /\ registered[name].mws # <<>>
    /\ \A c \in Calls : calls[c].trace = <<>>

\* C10: h.use() is h: a name registered with no middleware holds the handler
\* itself, and a call that runs it with no global middleware executes the one
\* stage h and returns the Response of h.
C10_EmptyUse ==
    /\ \A name \in DOMAIN invokeMap :
          registered[name].mws = <<>> => invokeMap[name] = registered[name].h
    /\ \A c \in Calls :
          (Found(c) /\ Finished(c) /\ MwsOf(c) = <<>>) =>
              /\ calls[c].trace = <<RegOf(c).h>>
              /\ calls[c].pc = "done" =>
                    calls[c].result =
                        HandlerBody(RegOf(c).h, calls[c].args, Context).rsp

C10_Witness ==
    \E c \in Calls :
        /\ Found(c) /\ calls[c].pc = "done" /\ MwsOf(c) = <<>>
        /\ calls[c].args # <<>>
        /\ RegOf(c).h.kind = "hIntAppender"
        /\ Context["test"] # <<>>

\* C11: after any RegisterHandler calls the registry holds exactly the names
\* registered, one entry each: a RegisterHandler of a new name adds one
\* entry, of a name already there none, and either way the entry is the
\* composition just made; Invoke of a registered name is never answered
\* not-found and runs the stages of the most recent registration.
C11_Registry ==
    /\ [](DOMAIN invokeMap = DOMAIN registered)
    /\ [][\A functionName \in FunctionNames, h \in RegistryHandlers,
            mws \in SeqsUpTo(RegistryMiddlewares, MaxVariadic) :
              RegisterHandler(functionName, h, mws) =>
                /\ Cardinality(DOMAIN invokeMap') =
                      Cardinality(DOMAIN invokeMap)
                        + (IF functionName \in DOMAIN invokeMap THEN 0 ELSE 1)
                /\ Unfold(invokeMap'[functionName]) = mws \o <<h>>
                /\ \A other \in DOMAIN invokeMap \ {functionName} :
                      invokeMap'[other] = invokeMap[other]]_vars
    /\ [](\A c \in Calls :
            (Started(c) /\ calls[c].function \in DOMAIN registered) =>
                /\ calls[c].result # NotFoundError(calls[c].function)
                /\ calls[c].trace =
                      SubSeq(StagesOf(c), 1, Len(calls[c].trace))
                /\ Finished(c) => calls[c].trace # <<>>)

C11_Witness ==
    /\ Cardinality(DOMAIN invokeMap) = 2
    /\ MaxCalls >= 2
    /\ \A c \in 1..2 : calls[c].pc = "done" /\ Len(calls[c].trace) >= 2
    /\ calls[1].function # calls[2].function
    /\ LastStage(1) # LastStage(2)

\* C12: Router.Use is append-only.  The chain starts empty and only Use
\* changes it; a Use of n middleware makes the chain n longer, keeps the
\* middleware already there at their positions and puts the new ones after
\* them in the order given, so the chain is the concatenation of the
\* argument lists in call order.
C12_UseAppends ==
    /\ middlewareChain = <<>>
    /\ [][/\ middlewareChain' # middlewareChain =>
                \E mws \in SeqsUpTo(Middlewares, MaxVariadic) : Use(mws)
          /\ \A mws \in SeqsUpTo(Middlewares, MaxVariadic) :
                Use(mws) =>
                  /\ Len(middlewareChain') = Len(middlewareChain) + Len(mws)
                  /\ SubSeq(middlewareChain', 1, Len(middlewareChain))
                        = middlewareChain
                  /\ SubSeq(middlewareChain', Len(middlewareChain) + 1,
                            Len(middlewareChain')) = mws]_vars

\* Two Use calls of one middleware each, with different middleware.
C12_Witness ==
    /\ Len(middlewareChain) = 2
    /\ middlewareChain[1] # middlewareChain[2]
    /\ \E c \in Calls : calls[c].pc = "done" /\ Len(calls[c].trace) >= 3

\* ------------------------------------------- claims: the library middleware
\* The stage a running call runs next, and a step in which it runs a stage
\* of the given kind.
Upcoming(c) ==
    IF calls[c].fn.kind = "closure" THEN calls[c].fn.tmpMW ELSE calls[c].fn
Runs(c, kind) ==
    calls[c].pc = "run" /\ Upcoming(c).kind = kind /\ calls'[c] # calls[c]

\* The step ends the call with rsp: the stage has run once, next is not
\* invoked and the context is as it was.
Returns(c, rsp) ==
    /\ calls'[c].pc = "done"
    /\ calls'[c].result = rsp
    /\ calls'[c].trace = Append(calls[c].trace, Upcoming(c))
    /\ calls'[c].fn = NilHandler
    /\ Context' = Context

\* The step invokes next, once and with the arguments the stage was given:
\* the call goes on with the handler the closure captured.
InvokesNext(c) ==
    /\ calls'[c].pc = "run"
    /\ calls'[c].fn = calls[c].fn.tmpH
    /\ calls'[c].args = calls[c].args
    /\ calls'[c].trace = Append(calls[c].trace, Upcoming(c))

\* What the library's handlers answer.
HandlerAnswer(h) ==
    CASE h.kind = "myHandler" -> [status |-> 200, message |-> "", payload |-> <<>>]
      [] h.kind = "hSuccess" ->
            [status |-> h.status, message |-> "", payload |-> h.payload]

\* A finished call that ran a stage of the kind and reached its handler
\* returns the handler's Response.
ReturnsNextResponse(kind) ==
    \A c \in Calls :
        (/\ calls[c].pc = "done"
         /\ \E i \in 1..Len(calls[c].trace) : calls[c].trace[i].kind = kind
         /\ LastStage(c) \in LibraryHandlers)
            => calls[c].result = HandlerAnswer(LastStage(c))

\* The expected names in order, comma-separated, no trailing comma.
RECURSIVE NamesText(_)
NamesText(expected) ==
    IF expected = <<>> THEN ""
    ELSE IF Len(expected) = 1 THEN expected[1]
    ELSE expected[1] \o ", " \o NamesText(Tail(expected))

\* "incorrect number of arguments, expected N: name1, name2, ..."
ArgCounterTextAsStated(expected) ==
    "incorrect number of arguments, expected " \o ToString(Len(expected))
    \o ": " \o NamesText(expected)

\* The same, ending after N when there is no expected name.
ArgCounterTextAmended(expected) ==
    IF expected = <<>> THEN "incorrect number of arguments, expected 0"
    ELSE ArgCounterTextAsStated(expected)

\* C13 as stated: ArgCounter(expected...) on args of another length returns
\* Error(400, "incorrect number of arguments, expected N: name1, name2, ...")
\* without invoking next, for every expected list, the empty one included;
\* on args of the same length it invokes next once with the same args and
\* returns what next returns.
C13_ArgCounterAsStated ==
    /\ [][\A c \in Calls : Runs(c, "ArgCounter") =>
            IF Len(calls[c].args) # Len(Upcoming(c).expected)
            THEN Returns(c, [status |-> 400,
                             message |-> ArgCounterTextAsStated(Upcoming(c).expected),
                             payload |-> <<>>])
            ELSE InvokesNext(c) /\ Context' = Context]_vars
    /\ []ReturnsNextResponse("ArgCounter")

\* C13, amended: as stated, except that for the empty expected list the
\* message is "incorrect number of arguments, expected 0", with no colon
\* after the number.  With expected names a, b and one argument the message
\* is "incorrect number of arguments, expected 2: a, b".
C13_ArgCounter ==
    /\ [][\A c \in Calls : Runs(c, "ArgCounter") =>
            IF Len(calls[c].args) # Len(Upcoming(c).expected)
            THEN Returns(c, [status |-> 400,
                             message |-> ArgCounterTextAmended(Upcoming(c).expected),
                             payload |-> <<>>])
            ELSE InvokesNext(c) /\ Context' = Context]_vars
    /\ []ReturnsNextResponse("ArgCounter")
    /\ [](\A c \in Calls :
            (calls[c].pc = "done" /\ calls[c].trace # <<>>
             /\ LastStage(c) = ArgCounter(<<"a", "b">>))
                => calls[c].result.message =
                      "incorrect number of arguments, expected 2: a, b")

\* One argument: ArgCounter("a") has invoked next, and ArgCounter() has
\* answered the error for no expected name.
C13_Witness ==
    /\ calls[1].pc = "done"
    /\ Len(calls[1].args) = 1
    /\ calls[1].trace = <<ArgCounter(<<"a">>), ArgCounter(<<>>)>>
    /\ calls[1].result =
          [status |-> 400, payload |-> <<>>,
           message |-> "incorrect number of arguments, expected 0"]

\* A step of the call running one of the two parsers.
RunsParser(c) == Runs(c, "JSONParser") \/ Runs(c, "TimestampParser")

\* The messages that name the out-of-range index, written out.
OutOfRangeText(mw) ==
    CASE mw.kind = "JSONParser" /\ mw.argIndex = 0 ->
            "error unmarshalling json: argIndex 0 was greater than length of args"
      [] mw.kind = "JSONParser" /\ mw.argIndex = 1 ->
            "error unmarshalling json: argIndex 1 was greater than length of args"
      [] mw.kind = "TimestampParser" /\ mw.argIndex = 0 ->
            "error parsing time: argIndex 0 was greater than length of args"
      [] mw.kind = "TimestampParser" /\ mw.argIndex = 1 ->
            "error parsing time: argIndex 1 was greater than length of args"

\* C14: a parser whose argIndex is not below len(args) returns a 500 Error
\* whose message names the index, does not invoke next and leaves the
\* context as it was.
C14_IndexOutOfRange ==
    [][\A c \in Calls :
         (RunsParser(c) /\ Upcoming(c).argIndex >= Len(calls[c].args)) =>
            Returns(c, [status |-> 500, message |-> OutOfRangeText(Upcoming(c)),
                        payload |-> <<>>])]_vars

\* One argument: JSONParser at index 0 has stored its value, and the parser
\* at index 1, the length of args, has answered the error.
C14_Witness ==
    /\ calls[1].pc = "done"
    /\ Len(calls[1].args) = 1
    /\ Len(calls[1].trace) = 2
    /\ calls[1].trace[1] = JSONParser(0, "json", "int")
    /\ calls[1].trace[2].kind \in {"JSONParser", "TimestampParser"}
    /\ calls[1].trace[2].argIndex = 1
    /\ calls[1].result.status = 500
    /\ DOMAIN Context = {"json"}

\* The argument strings each parser accepts.
Parses(mw, arg) ==
    CASE mw.kind = "JSONParser" -> arg = "1"
      [] mw.kind = "TimestampParser" -> arg \in {"1970-01-02", "1970-01-03"}

\* The parser's index is within args.
InRange(c) ==
    /\ Upcoming(c).argIndex >= 0
    /\ Upcoming(c).argIndex < Len(calls[c].args)

\* The step ends the call with an Error of the status: a message and no
\* payload, next not invoked, the context as it was.
ReturnsError(c, status) ==
    /\ calls'[c].pc = "done"
    /\ calls'[c].result.status = status
    /\ calls'[c].result.message # ""
    /\ calls'[c].result.payload = <<>>
    /\ calls'[c].trace = Append(calls[c].trace, Upcoming(c))
    /\ calls'[c].fn = NilHandler
    /\ Context' = Context

\* C15: a parser whose argument is in range and does not parse returns a 400
\* Error, does not invoke next and leaves the context as it was: every key,
\* its own included, keeps the value it had.
C15_ParseFailure ==
    [][\A c \in Calls :
         (/\ RunsParser(c)
          /\ InRange(c)
          /\ ~Parses(Upcoming(c), calls[c].args[Upcoming(c).argIndex + 1])) =>
            ReturnsError(c, 400)]_vars

\* Two arguments: the first parser has stored the time of args[0] and the
\* second, on the same key, has failed on args[1]; the key keeps the time of
\* args[0].
C15_Witness ==
    /\ calls[1].pc = "done"
    /\ calls[1].args = <<"1970-01-02", "1">>
    /\ calls[1].trace = <<TimestampParser(0, "2006-01-02", "timestamp"),
                          TimestampParser(1, "2006-01-02", "timestamp")>>
    /\ calls[1].result.status = 400
    /\ Context = [k \in {"timestamp"} |-> [sec |-> 86400, nsec |-> 0]]

\* The value a parser stores for an argument it accepts: a pointer to the
\* JSON value, or the time.
StoredValue(mw, arg) ==
    CASE mw.kind = "JSONParser" /\ arg = "1" -> [ptr |-> 1]
      [] mw.kind = "TimestampParser" /\ arg = "1970-01-02" ->
            [sec |-> 86400, nsec |-> 0]
      [] mw.kind = "TimestampParser" /\ arg = "1970-01-03" ->
            [sec |-> 172800, nsec |-> 0]

\* The stages of the call's trace that wrote the key: every stage but a
\* last one that returned has invoked next, and a parser or
\* TransactionTimestamp writes its key before it does.
WritesOf(c, key) ==
    {i \in 1..Len(calls[c].trace) :
        /\ calls[c].trace[i].kind \in
              {"JSONParser", "TimestampParser", "TransactionTimestamp"}
        /\ calls[c].trace[i].key = key
        /\ (i < Len(calls[c].trace) \/ calls[c].pc = "run")}

\* C16: a parser whose argument is in range and parses stores the parsed
\* value under exactly its context key, changing no other key, and invokes
\* next once with the unchanged args; a call that goes on to its handler
\* returns the handler's Response; and while the call is in flight the value
\* stays readable under the key by its later middleware and its handler
\* (unless a later stage of the same call stored another under that key).
C16_ParseSuccess ==
    /\ [][\A c \in Calls :
            (/\ RunsParser(c)
             /\ InRange(c)
             /\ Parses(Upcoming(c), calls[c].args[Upcoming(c).argIndex + 1])) =>
                /\ InvokesNext(c)
                /\ Context' =
                      Put(Context, Upcoming(c).key,
                          StoredValue(Upcoming(c),
                                      calls[c].args[Upcoming(c).argIndex + 1]))]_vars
    /\ [](ReturnsNextResponse("JSONParser")
           /\ ReturnsNextResponse("TimestampParser"))
    /\ [](\A c \in Calls : \A key \in {"json", "timestamp"} :
            (calls[c].pc = "run" /\ WritesOf(c, key) # {}) =>
                LET i == CHOOSE i \in WritesOf(c, key) :
                            \A j \in WritesOf(c, key) : j <= i
                    mw == calls[c].trace[i]
                IN  mw.kind \in {"JSONParser", "TimestampParser"} =>
                      /\ key \in DOMAIN Context
                      /\ Context[key] =
                            StoredValue(mw, calls[c].args[mw.argIndex + 1]))

\* C17: TransactionTimestamp returns a 500 Error, without invoking next or
\* writing the context, when the stub gives no transaction timestamp; when it
\* gives one, it stores the time of its seconds and nanoseconds under the
\* context key and invokes next once, and the call returns next's Response.
C17_TransactionTimestamp ==
    /\ [][\A c \in Calls, stub \in Stubs :
            (/\ calls[c].pc = "run"
             /\ Upcoming(c).kind = "TransactionTimestamp"
             /\ StageOn(c, stub)) =>
                IF stub.ok
                THEN /\ InvokesNext(c)
                     /\ Context' = Put(Context, Upcoming(c).key,
                                       [sec |-> stub.seconds, nsec |-> stub.nanos])
                ELSE ReturnsError(c, 500)]_vars
    /\ []ReturnsNextResponse("TransactionTimestamp")

\* The timestamp of the transaction has been stored and the handler that
\* reads it has answered.
C17_Witness ==
    /\ calls[1].pc = "done"
    /\ calls[1].trace = <<TransactionTimestamp("timestamp"), myHandler>>
    /\ calls[1].result = [status |-> 200, message |-> "", payload |-> <<>>]
    /\ Context = [k \in {"timestamp"} |-> [sec |-> 5, nsec |-> 7]]

\* A Response with a status and not both a message and a payload.
WellFormed(rsp) ==
    /\ rsp.status \in 100..599
    /\ rsp.message = "" \/ rsp.payload = <<>>

\* The stage does not return a Response: the type assertion of an appender
\* on a key the context lacks.
Faults(stage) ==
    /\ stage.kind \in {"mwIntAppender", "hIntAppender"}
    /\ stage.key \notin DOMAIN Context

\* C18: every Invoke completes with one well-formed Response, whether or
\* not the name is registered, unless a stage itself fails to return one:
\* a call of an unregistered name is complete at once, a call in flight
\* ends, the only fault is that of a stage that faults itself, and a call
\* with n middleware runs at most n + 1 stages.
C18_InvokeCompletes ==
    /\ [](\A c \in Calls :
            /\ calls[c].pc = "done" => WellFormed(calls[c].result)
            /\ (Started(c) /\ calls[c].function \notin DOMAIN registered)
                  => calls[c].pc = "done"
            /\ (Started(c) /\ calls[c].function \in DOMAIN registered)
                  => Len(calls[c].trace) <= Len(MwsOf(c)) + 1)
    /\ [][\A c \in Calls :
            (calls[c].pc # "panic" /\ calls'[c].pc = "panic")
                => Faults(Upcoming(c))]_vars
    /\ \A c \in Calls : (calls[c].pc = "run") ~> Finished(c)

\* A call with three or more middleware has run them all and its handler.
C18_Witness ==
    /\ calls[1].pc = "done" /\ calls[1].function = "endpoint"
    /\ "endpoint" \in DOMAIN registered
    /\ Len(MwsOf(1)) >= 3
    /\ Len(calls[1].trace) = Len(MwsOf(1)) + 1
    /\ WellFormed(calls[1].result)

\* C19: a new Router has an empty registry, an empty global chain and an
\* empty context, and as long as nothing is registered Invoke returns the
\* not-found error for every function name and runs no stage.
C19_NewRouter ==
    /\ invokeMap = <<>> /\ middlewareChain = <<>> /\ Context = <<>>
    /\ [](registered = <<>> =>
            /\ invokeMap = <<>>
            /\ \A c \in Calls : Started(c) =>
                  /\ calls[c].pc = "done"
                  /\ calls[c].trace = <<>>
                  /\ calls[c].result =
                        [status |-> 400, payload |-> <<>>,
                         message |-> NotFoundText(calls[c].function)])

\* Both names have been invoked on a Router as NewRouter made it.
C19_Witness ==
    /\ registered = <<>> /\ middlewareChain = <<>> /\ Context = <<>>
    /\ MaxCalls >= 2
    /\ calls[1].pc = "done" /\ calls[2].pc = "done"
    /\ {calls[1].function, calls[2].function} = {"endpoint", "nothing"}

\* C20: a handler that answers Success(status, payload) has returned a
\* Response with that status and payload and an empty message; one that
\* answers Error(status, message) has returned that status and message and
\* an empty payload; and no Response returned by a call has both a message
\* and a payload.
C20_Constructors ==
    \A c \in Calls :
        (calls[c].pc = "done") =>
            /\ ~(calls[c].result.message # "" /\ calls[c].result.payload # <<>>)
            /\ (calls[c].trace # <<>> /\ LastStage(c).kind = "hSuccess") =>
                  calls[c].result =
                    [status |-> LastStage(c).status, message |-> "",
                     payload |-> LastStage(c).payload]
            /\ (calls[c].trace # <<>> /\ LastStage(c).kind = "hError") =>
                  calls[c].result =
                    [status |-> LastStage(c).status,
                     message |-> LastStage(c).message, payload |-> <<>>]

\* One call has been answered by Success with a payload, the other by
\* Error with a message.
C20_Witness ==
    /\ MaxCalls >= 2
    /\ calls[1].pc = "done" /\ calls[2].pc = "done"
    /\ calls[1].trace # <<>> /\ LastStage(1) = hSuccess(200, <<72, 105>>)
    /\ calls[1].result = [status |-> 200, message |-> "", payload |-> <<72, 105>>]
    /\ calls[2].trace # <<>> /\ LastStage(2) = hError(500, "Hello World!")
    /\ calls[2].result =
          [status |-> 500, message |-> "Hello World!", payload |-> <<>>]

\* C21: the global middleware is bound when a call is dispatched.  Use
\* leaves the registry as it is and RegisterHandler leaves the global chain
\* as it is, so the two commute; and a call dispatched after middleware was
\* added by Use to a Router whose handler was already registered runs that
\* middleware, in the order of the Use calls, before the call-specific
\* middleware and the handler, every time the handler is invoked.
C21_BoundAtDispatch ==
    /\ [][\A mws \in SeqsUpTo(Middlewares, MaxVariadic) :
            Use(mws) => (invokeMap' = invokeMap /\ registered' = registered)]_vars
    /\ [][\A functionName \in RegisteredNames, h \in Handlers,
            mws \in SeqsUpTo(Middlewares, MaxVariadic) :
              RegisterHandler(functionName, h, mws) =>
                  middlewareChain' = middlewareChain]_vars
    /\ [](\A c \in Calls : Found(c) =>
            /\ Len(calls[c].trace) <= Len(StagesOf(c))
            /\ \A i \in 1..Len(calls[c].trace) :
                  calls[c].trace[i] =
                    IF i <= Len(middlewareChain) THEN middlewareChain[i]
                    ELSE IF i <= Len(middlewareChain) + Len(RegOf(c).mws)
                    THEN RegOf(c).mws[i - Len(middlewareChain)]
                    ELSE RegOf(c).h
            /\ (Finished(c) /\ AllDelegate(c)) =>
                  Len(calls[c].trace) = Len(StagesOf(c)))

\* Two calls of a handler registered with one middleware before two
\* different global middleware were added have each run all four stages.
C21_Witness ==
    /\ MaxCalls >= 2
    /\ Len(middlewareChain) = 2 /\ middlewareChain[1] # middlewareChain[2]
    /\ \A c \in 1..2 :
          /\ Found(c) /\ calls[c].pc = "done" /\ AllDelegate(c)
          /\ Len(RegOf(c).mws) = 1
          /\ Len(calls[c].trace) = 4

\* C22: a parser never reads outside the argument list, whatever int its
\* argIndex is: a parser that has run has either returned an Error, or read
\* args[argIndex] with 0 <= argIndex < len(args) and gone on; it has never
\* faulted.
C22_IndexInBounds ==
    \A c \in Calls : \A i \in 1..Len(calls[c].trace) :
        calls[c].trace[i].kind \in {"JSONParser", "TimestampParser"} =>
            IF i = Len(calls[c].trace) /\ calls[c].pc # "run"
            THEN /\ calls[c].pc = "done"
                 /\ calls[c].result.status \in {400, 500}
                 /\ calls[c].result.message # ""
            ELSE /\ calls[c].trace[i].argIndex >= 0
                 /\ calls[c].trace[i].argIndex < Len(calls[c].args)

\* C23: every call of GetCreatorCert gives a certificate or an error: when
\* GetCreator fails, when the creator is not a serialised identity and when
\* the identity bytes hold no PEM block, the outcome is a returned error,
\* never a fault.
C23_CertOrError ==
    creatorCert.called =>
        /\ creatorCert.out.kind \in {"cert", "error"}
        /\ (\/ creatorCert.stub.err # ""
            \/ ~creatorCert.stub.proto
            \/ PemDecode(creatorCert.stub.IdBytes).nil)
              => (creatorCert.out.kind = "error" /\ creatorCert.out.err # "")

====
